---- MODULE Spec2Model ----
(***************************************************************************)
(* Model of src/libchemfiles/sizeof.cpp, the build-time layout probe of    *)
(* chemfiles.js.  The translation unit is compiled against <chemfiles.h>,  *)
(* and the resulting executable writes one `export const NAME = SIZE;`     *)
(* line per probed type to standard output and returns 0.                  *)
(*                                                                         *)
(* Text is modelled as sequences of one-character strings, so that         *)
(* std::toupper, the stream insertion of a size_t and the preprocessor's   *)
(* # operator are computed character by character.                         *)
(***************************************************************************)
EXTENDS Naturals, Sequences, FiniteSets

\* Number of times the build-and-run cycle of the generator is followed.
MaxRuns == 2

VARIABLES
    sizeof,     \* the build target: complete type -> size in bytes
    revisions,  \* the body of main at each successive build
    run,        \* the number of the current build-and-run cycle
    prog,       \* the body of main being built or executed
    phase,      \* "build", "build_failed", "running" or "exited"
    ip,         \* index in prog of the next statement of main
    out,        \* the characters written to standard output by this run
    status,     \* <<>> until main returns, then <<return value>>
    history     \* [prog, out] of the completed earlier runs

vars == <<sizeof, revisions, run, prog, phase, ip, out, status, history>>

----------------------------------------------------------------------------
(* Characters *)

Lower == <<"a","b","c","d","e","f","g","h","i","j","k","l","m",
           "n","o","p","q","r","s","t","u","v","w","x","y","z">>

Upper == <<"A","B","C","D","E","F","G","H","I","J","K","L","M",
           "N","O","P","Q","R","S","T","U","V","W","X","Y","Z">>

DigitChars == <<"0","1","2","3","4","5","6","7","8","9">>

\* A toupper that forgets to convert: the character is returned as it is.
toupper_identity(c) == c

\* std::toupper in the default "C" locale (the program never calls
\* setlocale): a lowercase letter maps to its uppercase letter, every other
\* character maps to itself.
toupper(c) ==
    IF \E i \in 1..Len(Lower) : Lower[i] = c
    THEN Upper[CHOOSE i \in 1..Len(Lower) : Lower[i] = c]
    ELSE c

\* std::transform(begin(name), end(name), begin(name), toupper): every
\* position of the string is replaced by its image, in place.
transform(name) == [i \in 1..Len(name) |-> toupper(name[i])]

RECURSIVE Decimal(_)
\* operator<<(std::ostream&, size_t): the decimal digits of the value,
\* most significant first, without padding or sign.
Decimal(n) ==
    IF n < 10 THEN <<DigitChars[n + 1]>>
    ELSE Decimal(n \div 10) \o <<DigitChars[(n % 10) + 1]>>

----------------------------------------------------------------------------
(* Types and the build target *)

\* Types that need no library header (<cstdint> and the core language).
BuiltinTypes == {"void*", "double", "bool", "uint64_t"}

\* Types that <chemfiles.h> is expected to declare.
LibraryTypes == {"chfl_vector3d", "chfl_property_kind",
                 "chfl_cellshape", "chfl_bond_order"}

\* An enumeration of the library that main does not probe.
NewEnum == "chfl_status"

PointerSizes == {4, 8}
DoubleSizes  == {4, 8}
BoolSizes    == {1, 4}
Uint64Sizes  == {8}
Vector3dSizes == {12, 24}
EnumSizes    == {1, 4}

\* The build targets: `sizeof` is defined on the complete types visible in
\* the translation unit, that is the built-in types and the subset D of the
\* library's types that the installed header declares (D is empty when the
\* header is missing).
ABIs(lib) ==
    UNION { { [t \in BuiltinTypes \cup D |->
                 CASE t = "void*"              -> p
                   [] t = "double"             -> d
                   [] t = "bool"               -> b
                   [] t = "uint64_t"           -> u
                   [] t = "chfl_vector3d"      -> v
                   [] t = "chfl_property_kind" -> e1
                   [] t = "chfl_cellshape"     -> e2
                   [] t = "chfl_bond_order"    -> e3
                   [] OTHER                    -> e4 ] :
                p \in PointerSizes, d \in DoubleSizes, b \in BoolSizes,
                u \in Uint64Sizes, v \in Vector3dSizes,
                e1 \in EnumSizes, e2 \in EnumSizes, e3 \in EnumSizes,
                e4 \in EnumSizes }
            : D \in SUBSET lib }

----------------------------------------------------------------------------
(* The program text *)

ExportConst == <<"e","x","p","o","r","t"," ","c","o","n","s","t"," ">>
Equals      == <<" ","="," ">>
Terminator  == <<";","\n">>

\* print_size that omits the final newline.
print_size_no_newline(name, size) ==
    ExportConst \o transform(name) \o Equals \o Decimal(size) \o <<";">>

\* print_size that stamps each line with the number of the build.
print_size_stamped(name, size) ==
    ExportConst \o transform(name) \o Equals \o Decimal(size) \o <<";">>
        \o <<" ","/","/"," ">> \o Decimal(run) \o <<"\n">>

\* print_size that reports the size in bits.
print_size_bits(name, size) ==
    ExportConst \o transform(name) \o Equals \o Decimal(size * 8) \o Terminator

\* print_size: the characters one call inserts into std::cout.
print_size(name, size) ==
    ExportConst \o transform(name) \o Equals \o Decimal(size) \o Terminator

\* The # operator of the preprocessor: the spelling of the macro argument.
Stringify(type) ==
    CASE type = "double"   -> <<"d","o","u","b","l","e">>
      [] type = "bool"     -> <<"b","o","o","l">>
      [] type = "uint64_t" -> <<"u","i","n","t","6","4","_","t">>
      [] type = "chfl_vector3d" ->
            <<"c","h","f","l","_","v","e","c","t","o","r","3","d">>
      [] type = "chfl_property_kind" ->
            <<"c","h","f","l","_","p","r","o","p","e","r","t","y",
              "_","k","i","n","d">>
      [] type = "chfl_cellshape" ->
            <<"c","h","f","l","_","c","e","l","l","s","h","a","p","e">>
      [] type = "chfl_bond_order" ->
            <<"c","h","f","l","_","b","o","n","d","_","o","r","d","e","r">>
      [] type = "chfl_status" ->
            <<"c","h","f","l","_","s","t","a","t","u","s">>
      [] type = "void*"    -> <<"v","o","i","d","*">>

\* PRINT_SIZE(type): a call of print_size whose name is "SIZEOF_" followed
\* by the spelling of type and whose size is sizeof (type).  A call is
\* recorded as its name argument and the operand of its sizeof.
PRINT_SIZE(type) ==
    [name   |-> <<"S","I","Z","E","O","F","_">> \o Stringify(type),
     sizeof |-> type]

\* Line 18 with the size of another type.
Stmt18_sizeof_double ==
    [name   |-> <<"S","I","Z","E","O","F","_","V","O","I","D","_","P">>,
     sizeof |-> "double"]

\* print_size("SIZEOF_VOID_P", sizeof (void*));
Stmt18 ==
    [name   |-> <<"S","I","Z","E","O","F","_","V","O","I","D","_","P">>,
     sizeof |-> "void*"]

Stmt19 == PRINT_SIZE("double")
Stmt20 == PRINT_SIZE("bool")
Stmt21 == PRINT_SIZE("uint64_t")
Stmt23 == PRINT_SIZE("chfl_vector3d")
Stmt25 == PRINT_SIZE("chfl_property_kind")
Stmt26 == PRINT_SIZE("chfl_cellshape")
Stmt27 == PRINT_SIZE("chfl_bond_order")

\* main with two statements exchanged.
main_swapped ==
    <<Stmt18, Stmt20, Stmt19, Stmt21, Stmt23, Stmt25, Stmt26, Stmt27>>

\* main with a statement pasted twice in place of its neighbour.
main_duplicate ==
    <<Stmt18, Stmt19, Stmt20, Stmt21, Stmt23, Stmt25, Stmt26, Stmt26>>

\* The body of main: its print_size calls in program order; `return 0`
\* follows the last of them.
main == <<Stmt18, Stmt19, Stmt20, Stmt21, Stmt23, Stmt25, Stmt26, Stmt27>>

\* main with PRINT_SIZE(NewEnum) added as its k-th statement.
AddProbe(body, k) ==
    SubSeq(body, 1, k - 1) \o <<PRINT_SIZE(NewEnum)>>
        \o SubSeq(body, k, Len(body))

----------------------------------------------------------------------------
(* State *)

InitOf(lib, revs) ==
    /\ sizeof \in ABIs(lib)
    /\ revisions = revs
    /\ run = 1
    /\ prog = revs[1]
    /\ phase = "build"
    /\ ip = 1
    /\ out = <<>>
    /\ status = <<>>
    /\ history = <<>>

\* The source file as it is: every build compiles the same main.
Init == InitOf(LibraryTypes, [i \in 1..MaxRuns |-> main])

\* The source file gains a probe of NewEnum as the k-th statement of main
\* after the first build; the library header may declare NewEnum.
InitAdd ==
    \E k \in 1..(Len(main) + 1) :
        InitOf(LibraryTypes \cup {NewEnum},
               [i \in 1..MaxRuns |-> IF i = 1 THEN main ELSE AddProbe(main, k)])

\* Every sizeof operand of the program names a complete type.
Resolved(body) == \A i \in 1..Len(body) : body[i].sizeof \in DOMAIN sizeof

\* A compiler that accepts the translation unit whatever it refers to.
Compile_unchecked ==
    /\ phase = "build"
    /\ phase' = "running"
    /\ ip' = 1
    /\ UNCHANGED <<sizeof, revisions, run, prog, out, status, history>>

\* Compilation succeeds: all probed types are resolved, the executable is
\* started at the first statement of main.
Compile ==
    /\ phase = "build"
    /\ Resolved(prog)
    /\ phase' = "running"
    /\ ip' = 1
    /\ UNCHANGED <<sizeof, revisions, run, prog, out, status, history>>

\* Compilation fails: some sizeof operand is undeclared or incomplete, no
\* executable is produced and nothing runs.
CompileError ==
    /\ phase = "build"
    /\ ~Resolved(prog)
    /\ phase' = "build_failed"
    /\ UNCHANGED <<sizeof, revisions, run, prog, ip, out, status, history>>

\* A call that writes its line before the text already written.
Call_prepend ==
    /\ phase = "running"
    /\ ip \in 1..Len(prog)
    /\ out' = print_size(prog[ip].name, sizeof[prog[ip].sizeof]) \o out
    /\ ip' = ip + 1
    /\ UNCHANGED <<sizeof, revisions, run, prog, phase, status, history>>

\* The next print_size call of main.
Call ==
    /\ phase = "running"
    /\ ip \in 1..Len(prog)
    /\ out' = out \o print_size(prog[ip].name, sizeof[prog[ip].sizeof])
    /\ ip' = ip + 1
    /\ UNCHANGED <<sizeof, revisions, run, prog, phase, status, history>>

\* A main that returns a failure status.
Return_failure ==
    /\ phase = "running"
    /\ ip = Len(prog) + 1
    /\ status' = <<1>>
    /\ phase' = "exited"
    /\ UNCHANGED <<sizeof, revisions, run, prog, ip, out, history>>

\* return 0;
Return ==
    /\ phase = "running"
    /\ ip = Len(prog) + 1
    /\ status' = <<0>>
    /\ phase' = "exited"
    /\ UNCHANGED <<sizeof, revisions, run, prog, ip, out, history>>

\* The generator is built and run again, for the same target: a fresh
\* process with an empty standard output.
Rerun ==
    /\ phase = "exited"
    /\ run < MaxRuns
    /\ history' = Append(history, [prog |-> prog, out |-> out])
    /\ run' = run + 1
    /\ prog' = revisions[run + 1]
    /\ phase' = "build"
    /\ ip' = 1
    /\ out' = <<>>
    /\ status' = <<>>
    /\ UNCHANGED <<sizeof, revisions>>

Next == Compile \/ CompileError \/ Call \/ Return \/ Rerun

Spec == Init /\ [][Next]_vars

\* The generator before and after a probe is added to it.
SpecAdd == InitAdd /\ [][Next]_vars

\* The process is scheduled until it exits.
FairSpec == Init /\ [][Next]_vars /\ WF_vars(Next)

----------------------------------------------------------------------------
(* Reading the output back *)

RECURSIVE LinesFrom(_, _)
\* The lines of s that start at position i or later, without their
\* newlines; characters after the last newline form a final line.
LinesFrom(s, i) ==
    IF i > Len(s) THEN <<>>
    ELSE IF \E p \in i..Len(s) : s[p] = "\n"
    THEN LET e == CHOOSE p \in i..Len(s) :
                      /\ s[p] = "\n"
                      /\ \A q \in i..(p - 1) : s[q] # "\n"
         IN  <<SubSeq(s, i, e - 1)>> \o LinesFrom(s, e + 1)
    ELSE <<SubSeq(s, i, Len(s))>>

\* The lines of a text.
Lines(s) == LinesFrom(s, 1)

\* Every line of the text ends with a newline.
Terminated(s) == s = <<>> \/ s[Len(s)] = "\n"

LowerLetters == {Lower[i] : i \in 1..Len(Lower)}
UpperLetters == {Upper[i] : i \in 1..Len(Upper)}
Digits       == {DigitChars[i] : i \in 1..Len(DigitChars)}

IsLower(c) == c \in LowerLetters
IsUpper(c) == c \in UpperLetters
IsDigit(c) == c \in Digits
IsNameChar(c) == IsLower(c) \/ IsUpper(c) \/ IsDigit(c) \/ c = "_"

\* The length of the identifier that follows "export const " on a line:
\* the characters up to the first one that cannot be part of a name.
NameLen(line) ==
    LET p == Len(ExportConst) IN
    IF Len(line) <= p THEN 0
    ELSE CHOOSE n \in 0..(Len(line) - p) :
            /\ (p + n = Len(line) \/ ~IsNameChar(line[p + n + 1]))
            /\ \A j \in 1..n : IsNameChar(line[p + j])

\* The constant's name on a line.
NameOf(line) ==
    SubSeq(line, Len(ExportConst) + 1, Len(ExportConst) + NameLen(line))

\* The text between " = " and the final ";" of a line.
SizeTextOf(line) ==
    SubSeq(line, Len(ExportConst) + NameLen(line) + Len(Equals) + 1,
           Len(line) - 1)

RECURSIVE Value(_)
\* The number a sequence of decimal digits denotes.
Value(ds) ==
    IF ds = <<>> THEN 0
    ELSE 10 * Value(SubSeq(ds, 1, Len(ds) - 1))
           + ((CHOOSE i \in 1..10 : DigitChars[i] = ds[Len(ds)]) - 1)

\* A line has the shape `export const <NAME> = <DECIMAL_SIZE>;`.
IsDeclaration(line) ==
    /\ Len(line) > Len(ExportConst)
    /\ SubSeq(line, 1, Len(ExportConst)) = ExportConst
    /\ LET name == NameOf(line)
           size == SizeTextOf(line)
       IN  /\ name # <<>>
           /\ ~IsDigit(name[1])
           /\ \A j \in 1..Len(name) : ~IsLower(name[j])
           /\ line = ExportConst \o name \o Equals \o size \o <<";">>
           /\ size # <<>>
           /\ \A j \in 1..Len(size) : IsDigit(size[j])
           /\ (Len(size) > 1 => size[1] # "0")

\* The probed types in the order of the fixed list.
ProbedTypes ==
    <<"void*", "double", "bool", "uint64_t", "chfl_vector3d",
      "chfl_property_kind", "chfl_cellshape", "chfl_bond_order">>

\* The constant names in the order of the fixed list.
ConstantNames ==
    << <<"S","I","Z","E","O","F","_","V","O","I","D","_","P">>,
       <<"S","I","Z","E","O","F","_","D","O","U","B","L","E">>,
       <<"S","I","Z","E","O","F","_","B","O","O","L">>,
       <<"S","I","Z","E","O","F","_","U","I","N","T","6","4","_","T">>,
       <<"S","I","Z","E","O","F","_","C","H","F","L","_",
         "V","E","C","T","O","R","3","D">>,
       <<"S","I","Z","E","O","F","_","C","H","F","L","_",
         "P","R","O","P","E","R","T","Y","_","K","I","N","D">>,
       <<"S","I","Z","E","O","F","_","C","H","F","L","_",
         "C","E","L","L","S","H","A","P","E">>,
       <<"S","I","Z","E","O","F","_","C","H","F","L","_",
         "B","O","N","D","_","O","R","D","E","R">> >>

\* The names on the lines written so far.
EmittedNames ==
    LET L == Lines(out) IN [i \in 1..Len(L) |-> NameOf(L[i])]

RECURSIVE Sanitize(_)
\* The type spelling with the characters that cannot stand in an
\* identifier replaced: the `*` of a pointer type becomes `_p`.
Sanitize(sp) ==
    IF sp = <<>> THEN <<>>
    ELSE (IF Head(sp) = "*" THEN <<"_","p">> ELSE <<Head(sp)>>)
            \o Sanitize(Tail(sp))

\* The spelling of each type of the fixed list, as written in main.
Spelling ==
    << <<"v","o","i","d","*">>,
       <<"d","o","u","b","l","e">>,
       <<"b","o","o","l">>,
       <<"u","i","n","t","6","4","_","t">>,
       <<"c","h","f","l","_","v","e","c","t","o","r","3","d">>,
       <<"c","h","f","l","_","p","r","o","p","e","r","t","y",
         "_","k","i","n","d">>,
       <<"c","h","f","l","_","c","e","l","l","s","h","a","p","e">>,
       <<"c","h","f","l","_","b","o","n","d","_","o","r","d","e","r">> >>

\* Uppercase of a text: lowercase letters replaced, the rest kept.
Uppercase(s) ==
    [j \in 1..Len(s) |->
        IF IsLower(s[j]) THEN Upper[CHOOSE i \in 1..26 : Lower[i] = s[j]]
        ELSE s[j]]

\* Two characters are equal or differ by case only.
SameUpToCase(a, b) ==
    \/ a = b
    \/ \E i \in 1..26 : {a, b} = {Lower[i], Upper[i]}

----------------------------------------------------------------------------
(* Properties *)

\* C1: on every line written, the decimal number is sizeof of the type
\* whose constant name the line carries, on the build target.
C1_SizeIsSizeofOfNamedType ==
    LET L == Lines(out) IN
    \A i \in 1..Len(L) :
        LET name == NameOf(L[i])
            size == Value(SizeTextOf(L[i]))
        IN  \E k \in 1..Len(ProbedTypes) :
                /\ name = ConstantNames[k]
                /\ ProbedTypes[k] \in DOMAIN sizeof
                /\ size = sizeof[ProbedTypes[k]]

\* A completed run on a target where the pointer and the double differ in
\* size and the vector's size has two digits.
C1_Witness ==
    /\ phase = "exited"
    /\ Len(Lines(out)) = 8
    /\ sizeof["void*"] = 4
    /\ sizeof["double"] = 8
    /\ sizeof["chfl_vector3d"] = 24

\* C2: the output of a completed run is exactly 8 newline-terminated lines
\* of the shape `export const <NAME> = <DECIMAL_SIZE>;`, one per probed
\* type and each type once, with nothing else in the stream.
C2_OutputShape ==
    phase = "exited" =>
        LET L == Lines(out)
            names == EmittedNames
        IN  /\ Terminated(out)
            /\ Len(L) = 8
            /\ \A i \in 1..Len(L) : IsDeclaration(L[i])
            /\ \A k \in 1..Len(ProbedTypes) :
                  Cardinality({i \in 1..Len(L) :
                                  names[i] = ConstantNames[k]}) = 1

\* A completed first run whose stream ends with a newline.
C2_Witness ==
    /\ phase = "exited"
    /\ run = 1
    /\ out # <<>>
    /\ out[Len(out)] = "\n"

\* C3: the name on the i-th line is the i-th name given to print_size with
\* only the case of its characters changed: same length, digits and
\* underscores kept, no lowercase letter left anywhere in it, and it equals
\* uppercase("SIZEOF_" + sanitize(T)) for the i-th probed type T.
C3_NameIsUppercasedPrefixedName ==
    LET names == EmittedNames IN
    \A i \in 1..Len(names) :
        LET emitted == names[i] IN
        /\ i <= Len(prog)
        /\ Len(emitted) = Len(prog[i].name)
        /\ \A j \in 1..Len(prog[i].name) :
              /\ SameUpToCase(emitted[j], prog[i].name[j])
              /\ ~IsLower(emitted[j])
              /\ (IsDigit(prog[i].name[j]) \/ prog[i].name[j] = "_")
                    => emitted[j] = prog[i].name[j]
        /\ i <= Len(Spelling)
        /\ emitted = Uppercase(<<"S","I","Z","E","O","F","_">>
                                  \o Sanitize(Spelling[i]))

\* The line of uint64_t has been written: its name holds letters to fold,
\* digits and underscores.
C3_Witness ==
    /\ phase = "running"
    /\ ip = 5
    /\ prog[4].name[8] = "u"
    /\ EmittedNames[4][8] = "U"
    /\ EmittedNames[4][12] = "6"

\* C4: the names on the lines written so far are the first names of the
\* fixed order SIZEOF_VOID_P, SIZEOF_DOUBLE, SIZEOF_BOOL, SIZEOF_UINT64_T,
\* SIZEOF_CHFL_VECTOR3D, SIZEOF_CHFL_PROPERTY_KIND, SIZEOF_CHFL_CELLSHAPE,
\* SIZEOF_CHFL_BOND_ORDER, a completed run has written all of them, and
\* every library type's line comes after every built-in type's line.
C4_FixedOrder ==
    LET names == EmittedNames
        classOf == [i \in 1..Len(names) |->
                      IF \E k \in 1..8 : /\ names[i] = ConstantNames[k]
                                         /\ ProbedTypes[k] \in BuiltinTypes
                      THEN "builtin"
                      ELSE IF \E k \in 1..8 :
                                 /\ names[i] = ConstantNames[k]
                                 /\ ProbedTypes[k] \in LibraryTypes
                      THEN "library" ELSE "other"]
    IN  /\ Len(names) <= Len(ConstantNames)
        /\ \A i \in 1..Len(names) : names[i] = ConstantNames[i]
        /\ phase = "exited" => Len(names) = Len(ConstantNames)
        /\ \A i, j \in 1..Len(names) :
              (classOf[i] = "builtin" /\ classOf[j] = "library") => i < j

\* The first library type's line has just followed the built-in types'.
C4_Witness ==
    /\ phase = "running"
    /\ Len(EmittedNames) = 5
    /\ EmittedNames[5] = ConstantNames[5]

\* C5: no two lines written by one run carry the same constant name.
C5_NamesDistinct ==
    LET names == EmittedNames IN
    \A i, j \in 1..Len(names) : i # j => names[i] # names[j]

\* A completed run with its 8 names.
C5_Witness ==
    /\ phase = "exited"
    /\ LET names == EmittedNames
       IN  Cardinality({names[i] : i \in 1..Len(names)}) = 8

ExitedWithSuccess ==
    /\ status = <<0>>
    /\ ip = Len(prog) + 1
    /\ Len(Lines(out)) = 8
    /\ Terminated(out)

\* C7: a started generator always reaches its exit, and whenever it has
\* exited its status is 0 and its 8 declarations have been written; while
\* it runs it has no exit status.
C7_TerminatesWithSuccess ==
    /\ [](phase = "running" => <>(phase = "exited"))
    /\ [](phase = "exited" => ExitedWithSuccess)
    /\ [](phase = "running" => status = <<>>)

\* The generator has returned 0 after its last declaration.
C7_Witness ==
    /\ phase = "exited"
    /\ status = <<0>>
    /\ ip = 9

\* C8: while a probed type of the fixed list is unresolved nothing is ever
\* written and no process runs, and when the generation step has ended
\* (failed build or exited process) the stream is empty or holds the
\* complete sequence of declarations.
C8_AllOrNothing ==
    /\ (\E k \in 1..Len(ProbedTypes) : ProbedTypes[k] \notin DOMAIN sizeof)
          => /\ out = <<>>
             /\ phase \in {"build", "build_failed"}
    /\ phase \in {"build_failed", "exited"}
          => \/ out = <<>>
             \/ LET names == EmittedNames
                IN  /\ Len(names) = Len(ConstantNames)
                    /\ \A i \in 1..Len(names) : names[i] = ConstantNames[i]
                    /\ Terminated(out)
    /\ phase = "build_failed" => out = <<>>

\* A build has failed on a missing library type, with an empty stream.
C8_Witness ==
    /\ phase = "build_failed"
    /\ "chfl_cellshape" \notin DOMAIN sizeof
    /\ "chfl_vector3d" \in DOMAIN sizeof
    /\ out = <<>>

\* C9: when the run before this one was of the current list and this run
\* is of the list with the new enumeration's probe as statement k, the
\* completed output has one line more, its k-th line is the new
\* declaration, the lines before it are the earlier run's lines and the
\* lines after it are the earlier run's remaining lines.
C9_AddingIsAdditive ==
    (/\ phase = "exited"
     /\ history # <<>>
     /\ history[Len(history)].prog = main
     /\ prog # main)
    => LET new == Lines(out)
           old == Lines(history[Len(history)].out)
       IN  \E k \in 1..Len(prog) :
              /\ prog[k].sizeof = NewEnum
              /\ Len(new) = Len(old) + 1
              /\ NameOf(new[k]) =
                    <<"S","I","Z","E","O","F","_","C","H","F","L","_",
                      "S","T","A","T","U","S">>
              /\ Value(SizeTextOf(new[k])) = sizeof[NewEnum]
              /\ \A i \in 1..(k - 1) : new[i] = old[i]
              /\ \A i \in k..Len(old) : new[i + 1] = old[i]

\* The generator with the new probe in fifth place has completed after a
\* completed run of the current generator.
C9_Witness ==
    /\ phase = "exited"
    /\ Len(history) = 1
    /\ history[1].prog = main
    /\ Len(prog) = 9
    /\ prog[5].sizeof = NewEnum
    /\ Len(Lines(out)) = 9

\* C10: on a target with sizeof(double) = 8, sizeof(bool) = 1 and
\* sizeof(uint64_t) = 8, the completed output holds the lines
\* `export const SIZEOF_DOUBLE = 8;`, `export const SIZEOF_BOOL = 1;` and
\* `export const SIZEOF_UINT64_T = 8;` in that order.
C10_Scenario64 ==
    (/\ phase = "exited"
     /\ sizeof["double"] = 8
     /\ sizeof["bool"] = 1
     /\ sizeof["uint64_t"] = 8)
    => LET L == Lines(out) IN
       \E a, b, c \in 1..Len(L) :
          /\ a < b
          /\ b < c
          /\ L[a] =
                <<"e","x","p","o","r","t"," ","c","o","n","s","t"," ",
                  "S","I","Z","E","O","F","_","D","O","U","B","L","E",
                  " ","="," ","8",";">>
          /\ L[b] =
                <<"e","x","p","o","r","t"," ","c","o","n","s","t"," ",
                  "S","I","Z","E","O","F","_","B","O","O","L",
                  " ","="," ","1",";">>
          /\ L[c] =
                <<"e","x","p","o","r","t"," ","c","o","n","s","t"," ",
                  "S","I","Z","E","O","F","_","U","I","N","T","6","4","_","T",
                  " ","="," ","8",";">>

\* A completed run on a 64-bit target.
C10_Witness ==
    /\ phase = "exited"
    /\ sizeof["void*"] = 8
    /\ sizeof["double"] = 8
    /\ sizeof["bool"] = 1
    /\ sizeof["uint64_t"] = 8

====
